---- MODULE Spec2Model ----
(***************************************************************************)
(* Model of TileSolver.py: the 8-puzzle board (Puzzle), the search node    *)
(* (Node), the three search loops of Solver and the Game.run driver.       *)
(* Python lists are sequences; Python indices are 0-based, so board[r][c]  *)
(* of the source is board[r + 1][c + 1] here.  Node objects live in the    *)
(* arena `nodes`; a node reference is its index in the arena, None is 0.   *)
(***************************************************************************)
EXTENDS Integers, Sequences, FiniteSets, TLC

VARIABLES
    start,      \* Solver.start: the board of the start Puzzle
    strategy,   \* the Solver entry point that is running
    pc,         \* where that entry point is: call, loop, returned, raised
    queue,      \* its local deque of node references
    seen,       \* its local set of board strings
    nodes,      \* the Node objects it has created and kept
    result,     \* what it returned
    error,      \* the exception that ended the call, if any
    input_str,  \* Game.run's argument: the text of the entry box
    algo_mode,  \* Game.run's argument: the radio button value
    matrix,     \* Game.matrix
    gpc,        \* where Game.run is: run, switch, display, shown, raised
    switcher,   \* the dict that switch() is building
    steps,      \* the step counter shown in the results label
    distance,   \* the value a call of Puzzle.manhattan returned
    move_list,  \* the list a read of Puzzle.actions returned, moves applied
    click_input, \* the text of the entry box at a second click of the button
    click_pc    \* the worker thread of that click: none, started, parsed

vars == <<start, strategy, pc, queue, seen, nodes, result, error,
          input_str, algo_mode, matrix, gpc, switcher, steps, distance,
          move_list, click_input, click_pc>>

clickVars == <<move_list, click_input, click_pc>>

gameVars == <<input_str, algo_mode, matrix, gpc, switcher, steps, distance,
              move_list, click_input, click_pc>>

(* ---------------------------- bounds ----------------------------------- *)

\* Start boards of the solver are the boards at most MaxScramble moves away
\* from the goal layout.
MaxScramble == 4

\* Depth up to which the reference breadth-first search looks for the goal.
MaxDist == 14

\* Puzzle.manhattan is called on the boards at most HeurDepth moves away from
\* the goal layout.
HeurDepth == 8

\* The boards typed into the entry box are those at most GameScramble moves
\* away from the goal layout, and the malformed texts of BadInputs.
GameScramble == 2

\* The boards in the entry box at the two clicks of the button are those at
\* most ClickScramble moves away from the goal layout.
ClickScramble == 1

\* Puzzle.actions is read on the boards at most ActionsDepth moves away from
\* the goal layout, and on the boards of RepeatedTileBoards.
ActionsDepth == 6

(* ---------------------------- Puzzle ----------------------------------- *)

None == 0

goal_state == << <<1, 2, 3>>, <<8, 0, 4>>, <<7, 6, 5>> >>

\* str(int) for the one-digit values a board holds
Digit == <<"0", "1", "2", "3", "4", "5", "6", "7", "8", "9">>

RECURSIVE Join(_)
Join(ss) == IF ss = <<>> THEN <<>> ELSE Head(ss) \o Join(Tail(ss))

\* Puzzle.__iter__: the cells row by row
Flat(board) == Join(board)

\* Puzzle.__str__: ''.join(map(str, self))
Str(board) ==
    LET cells == Flat(board)
    IN  [k \in 1..Len(cells) |-> Digit[cells[k] + 1]]

\* Puzzle.solved comparing with the layout that has the blank last
SolvedOther(board) == Str(board) = <<"1", "2", "3", "4", "5", "6", "7", "8", "0">>

\* Puzzle.solved
Solved(board) == Str(board) = <<"1", "2", "3", "8", "0", "4", "7", "6", "5">>

\* Puzzle.width
Width(board) == Len(board[1])

\* the dict of Puzzle.actions with each label on the opposite neighbour
DirecsOpposite(i, j) ==
    << [action |-> "R", to |-> <<i, j + 1>>],
       [action |-> "L", to |-> <<i, j - 1>>],
       [action |-> "D", to |-> <<i + 1, j>>],
       [action |-> "U", to |-> <<i - 1, j>>] >>

\* the four neighbours tried for the cell (i, j), in dict order R, L, D, U
Direcs(i, j) ==
    << [action |-> "R", to |-> <<i, j - 1>>],
       [action |-> "L", to |-> <<i, j + 1>>],
       [action |-> "D", to |-> <<i - 1, j>>],
       [action |-> "U", to |-> <<i + 1, j>>] >>

\* every (cell, direction) pair in the order the double loop visits them,
\* for each board width an input of Game.run can give
CandidateTable ==
    [w \in 1..3 |->
        [k \in 1..(w * w * 4) |->
            LET cell == (k - 1) \div 4
                i == cell \div w
                j == cell % w
                d == Direcs(i, j)[((k - 1) % 4) + 1]
            IN  [at |-> <<i, j>>, to |-> d.to, action |-> d.action]]]

Candidates(w) == CandidateTable[w]

\* the bounds test of Puzzle.actions with <= in place of < on the upper side
InGridInclusive(w, rc) == 0 <= rc[1] /\ rc[1] <= w /\ 0 <= rc[2] /\ rc[2] <= w

\* the bounds test of Puzzle.actions without the lower side
InGridNoLower(w, rc) == rc[1] < w /\ rc[2] < w

InGrid(w, rc) == 0 <= rc[1] /\ rc[1] < w /\ 0 <= rc[2] /\ rc[2] < w

\* Python's list[i]: a negative index counts from the end of the list
HasIndex(list, i) == -Len(list) <= i /\ i < Len(list)
At(list, i) == IF i < 0 THEN list[Len(list) + i + 1] ELSE list[i + 1]
Position(list, i) == IF i < 0 THEN Len(list) + i + 1 ELSE i + 1

\* board[r][c] exists
HasCell(board, rc) ==
    /\ HasIndex(board, rc[1])
    /\ HasIndex(At(board, rc[1]), rc[2])

\* board[r][c]
Cell(board, rc) == At(At(board, rc[1]), rc[2])

\* Puzzle.actions reads a cell that the board does not have (IndexError)
ActionsRaises(board) ==
    LET w == Width(board)
        cands == Candidates(w)
    IN  \E k \in 1..Len(cands) :
            InGrid(w, cands[k].to) /\ ~HasCell(board, cands[k].to)

\* Puzzle.actions returning at the first move it finds
ActionsFirstOnly(board) ==
    LET w == Width(board)
        IsMove(m) == InGrid(w, m.to) /\ Cell(board, m.to) = 0
    IN  SubSeq(SelectSeq(Candidates(w), IsMove), 1, 1)

\* Puzzle.actions: the moves (at, to, action) whose target cell holds 0
Actions(board) ==
    LET w == Width(board)
        IsMove(m) == InGrid(w, m.to) /\ Cell(board, m.to) = 0
    IN  SelectSeq(Candidates(w), IsMove)

\* Puzzle._move assigning the two cells one after the other, not as a swap
MoveOverwrite(board, at, to) ==
    LET t == Cell(board, to)
    IN  [board EXCEPT ![Position(board, at[1])]
                       [Position(board[Position(board, at[1])], at[2])] = t]

\* Puzzle._move: a copy of the board with cells `at` and `to` swapped
Move(board, at, to) ==
    LET a == Cell(board, at)
        t == Cell(board, to)
        b1 == [board EXCEPT ![Position(board, at[1])]
                                [Position(board[Position(board, at[1])], at[2])] = t]
    IN  [b1 EXCEPT ![Position(board, to[1])]
                    [Position(board[Position(board, to[1])], to[2])] = a]

Abs(x) == IF x < 0 THEN -x ELSE x

\* np.where(goal_state == v): the coordinates of v in the goal layout
GoalCoordsTable ==
    [v \in 0..9 |-> {rc \in (0..2) \X (0..2) : Cell(goal_state, rc) = v}]

GoalCoords(v) == GoalCoordsTable[v]

\* the first match, [0][0] and [1][0] of the np.where result
GoalCoordTable ==
    [v \in 0..8 |->
        CHOOSE rc \in GoalCoords(v) :
            \A o \in GoalCoords(v) : rc[1] * 3 + rc[2] <= o[1] * 3 + o[2]]

GoalCoord(v) == GoalCoordTable[v]

\* Puzzle.manhattan raises IndexError: a cell of the 3x3 window is missing
\* or holds a value that the goal layout does not contain
ManhattanRaises(board) ==
    \E rc \in (0..2) \X (0..2) :
        \/ ~HasCell(board, rc)
        \/ Cell(board, rc) # 0 /\ GoalCoords(Cell(board, rc)) = {}

RECURSIVE SumDistAll(_, _)
\* Puzzle.manhattan without the test that skips the blank
SumDistAll(board, k) ==
    IF k = 9 THEN 0
    ELSE LET rc == <<k \div 3, k % 3>>
             v == Cell(board, rc)
         IN  Abs(GoalCoord(v)[1] - rc[1]) + Abs(GoalCoord(v)[2] - rc[2])
             + SumDistAll(board, k + 1)

RECURSIVE SumDist(_, _)
SumDist(board, k) ==
    IF k = 9 THEN 0
    ELSE LET rc == <<k \div 3, k % 3>>
             v == Cell(board, rc)
             d == IF v # 0
                  THEN Abs(GoalCoord(v)[1] - rc[1]) + Abs(GoalCoord(v)[2] - rc[2])
                  ELSE 0
         IN  d + SumDist(board, k + 1)

\* Puzzle.manhattan with every distance counted twice
ManhattanDoubled(board) == 2 * SumDist(board, 0)

\* Puzzle.manhattan
Manhattan(board) == SumDist(board, 0)

(* ------------------------------ Node ----------------------------------- *)

\* Node.__init__ giving the child the g of its parent
NewNodeSameCost(ns, puzzle, parent, action) ==
    [puzzle |-> puzzle, parent |-> parent, action |-> action,
     g |-> IF parent # None THEN ns[parent].g ELSE 0]

\* Node.__init__
NewNode(ns, puzzle, parent, action) ==
    [puzzle |-> puzzle, parent |-> parent, action |-> action,
     g |-> IF parent # None THEN ns[parent].g + 1 ELSE 0]

\* Node.h
H(ns, n) == Manhattan(ns[n].puzzle)

\* Node.f
F(ns, n) == H(ns, n) + ns[n].g

\* Node.state
State(ns, n) == Str(ns[n].puzzle)

RECURSIVE Chain(_, _)
\* the while loop of Node.path: the node, its parent, ... up to the root
Chain(ns, n) == IF n = None THEN <<>> ELSE <<n>> \o Chain(ns, ns[n].parent)

Reversed(s) == [k \in 1..Len(s) |-> s[Len(s) + 1 - k]]

\* Node.path without reversed()
PathUnreversed(ns, n) == Chain(ns, n)

\* Node.path
Path(ns, n) == Reversed(Chain(ns, n))

(* ----------------------------- Solver ---------------------------------- *)

NoAction == "None"

Strategies == {"solve_a_star", "solve_uniform_cost", "solve_best_first_search"}

\* the sort keys with the cost of solve_uniform_cost negated
SortKeyReversed(strat, ns, n) ==
    CASE strat = "solve_a_star" -> F(ns, n)
      [] strat = "solve_uniform_cost" -> 0 - ns[n].g
      [] strat = "solve_best_first_search" -> H(ns, n)

\* the key=lambda of the sorted() call of each entry point
SortKey(strat, ns, n) ==
    CASE strat = "solve_a_star" -> F(ns, n)
      [] strat = "solve_uniform_cost" -> ns[n].g
      [] strat = "solve_best_first_search" -> H(ns, n)

\* the key function raises: only f and h read the board through manhattan
SortKeyRaises(strat, ns, n) ==
    strat # "solve_uniform_cost" /\ ManhattanRaises(ns[n].puzzle)

\* the value of a one-element set
TheOne(S) == CHOOSE x \in S : TRUE

\* the place that a stable ascending sort gives to element i of a list
\* whose keys are `keys`
Rank(keys, i) ==
    1 + Cardinality({j \in 1..Len(keys) :
                        keys[j] < keys[i] \/ (keys[j] = keys[i] /\ j < i)})

\* sorted(list(queue), key=...): ascending by key, and nodes of equal key
\* stay in the order they have in the queue (Python's sort is stable)
Sorted(strat, ns, q) ==
    TheOne({ [pos \in 1..Len(q) |-> q[CHOOSE i \in 1..Len(q) : ranks[i] = pos]] :
             ranks \in { <<>> \o [i \in 1..Len(q) |-> Rank(keys, i)] :
                         keys \in { <<>> \o [k \in 1..Len(q) |->
                                                 SortKey(strat, ns, q[k])] } } })

RECURSIVE ExpandInverted(_, _, _)
\* the for loop over node.actions with the membership test inverted
ExpandInverted(moves, node, st) ==
    IF moves = <<>> THEN st
    ELSE TheOne({ ExpandInverted(Tail(moves), node, st2) :
                  st2 \in { IF Str(child.puzzle) \in st.seen
                            THEN [queue |-> <<Len(st.nodes) + 1>> \o st.queue,
                                  seen |-> st.seen \cup {Str(child.puzzle)},
                                  nodes |-> Append(st.nodes, child)]
                            ELSE st :
                            child \in { NewNode(st.nodes,
                                                Move(st.nodes[node].puzzle,
                                                     Head(moves).at, Head(moves).to),
                                                node, Head(moves).action) } } })

RECURSIVE ExpandInPlace(_, _, _)
\* the for loop over node.actions with a _move that swaps the cells of the
\* parent's own board (copy = self): parent and child hold the moved board
ExpandInPlace(moves, node, st) ==
    IF moves = <<>> THEN st
    ELSE TheOne({ ExpandInPlace(Tail(moves), node, st2) :
                  st2 \in { IF Str(child.puzzle) \notin st.seen
                            THEN [queue |-> <<Len(st.nodes) + 1>> \o st.queue,
                                  seen |-> st.seen \cup {Str(child.puzzle)},
                                  nodes |-> Append([st.nodes EXCEPT
                                                       ![node].puzzle = child.puzzle],
                                                   child)]
                            ELSE [st EXCEPT !.nodes[node].puzzle = child.puzzle] :
                            child \in { NewNode(st.nodes,
                                                Move(st.nodes[node].puzzle,
                                                     Head(moves).at, Head(moves).to),
                                                node, Head(moves).action) } } })

RECURSIVE ExpandUnmarked(_, _, _)
\* the for loop over node.actions without seen.add(child.state)
ExpandUnmarked(moves, node, st) ==
    IF moves = <<>> THEN st
    ELSE TheOne({ ExpandUnmarked(Tail(moves), node, st2) :
                  st2 \in { IF Str(child.puzzle) \notin st.seen
                            THEN [queue |-> <<Len(st.nodes) + 1>> \o st.queue,
                                  seen |-> st.seen,
                                  nodes |-> Append(st.nodes, child)]
                            ELSE st :
                            child \in { NewNode(st.nodes,
                                                Move(st.nodes[node].puzzle,
                                                     Head(moves).at, Head(moves).to),
                                                node, Head(moves).action) } } })

RECURSIVE ExpandAppend(_, _, _)
\* the for loop over node.actions with queue.append in place of appendleft
ExpandAppend(moves, node, st) ==
    IF moves = <<>> THEN st
    ELSE TheOne({ ExpandAppend(Tail(moves), node, st2) :
                  st2 \in { IF Str(child.puzzle) \notin st.seen
                            THEN [queue |-> Append(st.queue, Len(st.nodes) + 1),
                                  seen |-> st.seen \cup {Str(child.puzzle)},
                                  nodes |-> Append(st.nodes, child)]
                            ELSE st :
                            child \in { NewNode(st.nodes,
                                                Move(st.nodes[node].puzzle,
                                                     Head(moves).at, Head(moves).to),
                                                node, Head(moves).action) } } })

RECURSIVE Expand(_, _, _)
\* the for loop over node.actions: st holds queue, seen and the arena
Expand(moves, node, st) ==
    IF moves = <<>> THEN st
    ELSE TheOne({ Expand(Tail(moves), node, st2) :
                  st2 \in { IF Str(child.puzzle) \notin st.seen
                            THEN [queue |-> <<Len(st.nodes) + 1>> \o st.queue,
                                  seen |-> st.seen \cup {Str(child.puzzle)},
                                  nodes |-> Append(st.nodes, child)]
                            ELSE st :
                            child \in { NewNode(st.nodes,
                                                Move(st.nodes[node].puzzle,
                                                     Head(moves).at, Head(moves).to),
                                                node, Head(moves).action) } } })

Pending == [kind |-> "pending", path |-> <<>>]
ReturnNone == [kind |-> "None", path |-> <<>>]
ReturnPath(p) == [kind |-> "path", path |-> p]

\* queue = deque([Node(self.start)]); seen = set(); seen.add(queue[0].state)
Begin(strat) ==
    /\ pc = "call"
    /\ strategy = strat
    /\ nodes' = <<NewNode(<<>>, start, None, NoAction)>>
    /\ queue' = <<1>>
    /\ seen' = {Str(start)}
    /\ pc' = "loop"
    /\ UNCHANGED <<start, strategy, result, error>>

\* one pass of `while queue:`, or the fall through when the queue is empty
Iterate(strat) ==
    /\ pc = "loop"
    /\ strategy = strat
    /\ IF queue = <<>>
       THEN /\ pc' = "returned"
            /\ result' = ReturnNone
            /\ UNCHANGED <<queue, seen, nodes, error>>
       ELSE IF \E k \in 1..Len(queue) : SortKeyRaises(strat, nodes, queue[k])
       THEN /\ pc' = "raised"
            /\ error' = "IndexError"
            /\ UNCHANGED <<queue, seen, nodes, result>>
       ELSE \E sq \in {Sorted(strat, nodes, queue)} :
                IF Solved(nodes[Head(sq)].puzzle)
                THEN /\ pc' = "returned"
                     /\ result' = ReturnPath(Path(nodes, Head(sq)))
                     /\ queue' = Tail(sq)
                     /\ UNCHANGED <<seen, nodes, error>>
                ELSE IF ActionsRaises(nodes[Head(sq)].puzzle)
                THEN /\ pc' = "raised"
                     /\ error' = "IndexError"
                     /\ queue' = Tail(sq)
                     /\ UNCHANGED <<seen, nodes, result>>
                ELSE \E st \in {Expand(Actions(nodes[Head(sq)].puzzle), Head(sq),
                                       [queue |-> Tail(sq), seen |-> seen,
                                        nodes |-> nodes])} :
                         /\ queue' = st.queue
                         /\ seen' = st.seen
                         /\ nodes' = st.nodes
                         /\ UNCHANGED <<pc, result, error>>
    /\ UNCHANGED <<start, strategy>>

solve_a_star ==
    /\ gpc = "direct"
    /\ Begin("solve_a_star") \/ Iterate("solve_a_star")
    /\ UNCHANGED gameVars

solve_uniform_cost ==
    /\ gpc = "direct"
    /\ Begin("solve_uniform_cost") \/ Iterate("solve_uniform_cost")
    /\ UNCHANGED gameVars

solve_best_first_search ==
    /\ gpc = "direct"
    /\ Begin("solve_best_first_search") \/ Iterate("solve_best_first_search")
    /\ UNCHANGED gameVars

(* ------------------------ reference search ----------------------------- *)

\* The reference search works on the puzzle as the specification describes
\* it and uses none of the operators that model Puzzle.actions or _move.
Cells == (0..2) \X (0..2)

Adjacent(p, q) == Abs(p[1] - q[1]) + Abs(p[2] - q[2]) = 1

AdjacentPairs == {pq \in Cells \X Cells : Adjacent(pq[1], pq[2])}

\* the 3x3 board with the contents of cells p and q exchanged
Exchanged(board, p, q) ==
    [r \in 1..3 |-> [c \in 1..3 |->
        IF <<r - 1, c - 1>> = p THEN board[q[1] + 1][q[2] + 1]
        ELSE IF <<r - 1, c - 1>> = q THEN board[p[1] + 1][p[2] + 1]
        ELSE board[r][c]]]

\* the boards one legal move away: the blank changes places with a tile
\* orthogonally next to it
Neighbours(board) ==
    {Exchanged(board, pq[1], pq[2]) :
        pq \in {pq \in AdjacentPairs : board[pq[1][1] + 1][pq[1][2] + 1] = 0
                                        /\ board[pq[2][1] + 1][pq[2][2] + 1] # 0}}

RECURSIVE Ball(_)
\* the boards at most d moves away from the goal layout
Ball(d) ==
    IF d = 0 THEN {goal_state}
    ELSE LET prev == Ball(d - 1)
         IN  prev \cup UNION {Neighbours(b) : b \in prev}

RECURSIVE BfsDepth(_, _, _)
\* breadth-first search level by level: the number of moves of a shortest
\* move sequence from the boards of `level` to the goal, -1 if no move
\* sequence reaches the goal, -2 if none of at most MaxDist moves does
BfsDepth(level, visited, d) ==
    IF goal_state \in level THEN d
    ELSE IF level = {} THEN -1
    ELSE IF d >= MaxDist THEN -2
    ELSE LET next == (UNION {Neighbours(b) : b \in level}) \ visited
         IN  BfsDepth(next, visited \cup next, d + 1)

ShortestLen(board) == BfsDepth({board}, {board}, 0)

RECURSIVE BfsBetween(_, _, _, _)
\* the same search for any target board: the least number of moves from the
\* boards of `level` to `target`
BfsBetween(level, visited, d, target) ==
    IF target \in level THEN d
    ELSE IF level = {} THEN -1
    ELSE IF d >= MaxDist THEN -2
    ELSE LET next == (UNION {Neighbours(b) : b \in level}) \ visited
         IN  BfsBetween(next, visited \cup next, d + 1, target)

MovesBetween(a, b) == BfsBetween({a}, {a}, 0, b)

(* --------------------------- start boards ------------------------------ *)

\* boards with repeated tiles: the goal cannot be reached from them and few
\* boards can
RepeatedTileBoards ==
    { << <<1, 1, 1>>, <<1, 0, 1>>, <<1, 1, 1>> >>,
      << <<1, 1, 1>>, <<1, 1, 2>>, <<1, 1, 0>> >>,
      << <<0, 2, 1>>, <<1, 1, 1>>, <<1, 1, 1>> >> }

\* 283164705, the scenario of the specification
ScenarioBoard == << <<2, 8, 3>>, <<1, 6, 4>>, <<7, 0, 5>> >>

\* 683104275 and 102748653, 12 and 11 moves away from the goal
DeepBoard == << <<6, 8, 3>>, <<1, 0, 4>>, <<2, 7, 5>> >>
DetourBoard == << <<1, 0, 2>>, <<7, 4, 8>>, <<6, 5, 3>> >>
DeepBoards == {DeepBoard, DetourBoard}

SolvableBoards == Ball(MaxScramble) \cup {ScenarioBoard}

StartBoards == SolvableBoards \cup RepeatedTileBoards

NoSwitcher == [k \in {} |-> Pending]

Init ==
    /\ \/ start \in StartBoards /\ strategy \in Strategies
       \/ start \in DeepBoards /\ strategy \in {"solve_a_star", "solve_best_first_search"}
    /\ pc = "call"
    /\ queue = <<>>
    /\ seen = {}
    /\ nodes = <<>>
    /\ result = Pending
    /\ error = "none"
    /\ input_str = <<>>
    /\ algo_mode = 0
    /\ matrix = <<>>
    /\ gpc = "direct"
    /\ switcher = NoSwitcher
    /\ steps = -1
    /\ distance = -1
    /\ move_list = <<>>
    /\ click_input = <<>>
    /\ click_pc = "none"

Next == solve_a_star \/ solve_uniform_cost \/ solve_best_first_search

Spec == Init /\ [][Next]_vars

\* the loop is a sequential program: a call that can take a step takes it
FairSpec == Spec /\ WF_vars(Next)

(* ------------------------------ Game ----------------------------------- *)

\* int(j) for a one-character string; other characters raise ValueError
IntOf ==
    [ch \in {"0", "1", "2", "3", "4", "5", "6", "7", "8", "9"} |->
        CHOOSE v \in 0..9 : Digit[v + 1] = ch]

IsDigit(ch) == ch \in DOMAIN IntOf

\* the first loop of Game.run: one row per index that is a multiple of 3,
\* holding input_str[index:index + 3]
Rows(str) ==
    [k \in 1..((Len(str) + 2) \div 3) |->
        SubSeq(str, 3 * (k - 1) + 1, IF 3 * k < Len(str) THEN 3 * k ELSE Len(str))]

\* the second loop of Game.run without an exception: every cell through int()
Converted(rows) ==
    [n \in 1..Len(rows) |-> [k \in 1..Len(rows[n]) |-> IntOf[rows[n][k]]]]

\* the second loop of Game.run stopped by a ValueError: the cells before the
\* first character that is not a digit are already integers
PartlyConverted(rows, str) ==
    LET bad == CHOOSE i \in 1..Len(str) :
                   /\ ~IsDigit(str[i])
                   /\ \A h \in 1..(i - 1) : IsDigit(str[h])
    IN  [n \in 1..Len(rows) |->
            [k \in 1..Len(rows[n]) |->
                IF 3 * (n - 1) + k < bad THEN IntOf[rows[n][k]] ELSE rows[n][k]]]

\* lines 288-309 up to the first call of the dict literal of switch():
\* parse the text into self.matrix, build the Puzzle and the Solver
run_parse ==
    /\ gpc = "run"
    /\ LET rows == matrix \o Rows(input_str)
       IN  IF \E i \in 1..Len(input_str) : ~IsDigit(input_str[i])
           THEN /\ matrix' = PartlyConverted(rows, input_str)
                /\ gpc' = "raised"
                /\ error' = "ValueError"
                /\ UNCHANGED <<start, strategy, pc>>
           ELSE IF rows = <<>>
           THEN /\ matrix' = rows
                /\ gpc' = "raised"
                /\ error' = "IndexError"
                /\ UNCHANGED <<start, strategy, pc>>
           ELSE /\ matrix' = Converted(rows)
                /\ start' = matrix'
                /\ strategy' = "solve_uniform_cost"
                /\ pc' = "call"
                /\ gpc' = "switch"
                /\ UNCHANGED error
    /\ UNCHANGED <<queue, seen, nodes, result, input_str, algo_mode, switcher,
                   steps, distance>>
    /\ UNCHANGED clickVars

\* a step of the Solver entry point that the dict literal is evaluating
run_solve ==
    /\ gpc = "switch"
    /\ Begin(strategy) \/ Iterate(strategy)
    /\ UNCHANGED gameVars

\* the entries of the dict literal of switch(), in the order it lists them
SwitchKey(strat) ==
    CASE strat = "solve_uniform_cost" -> 1
      [] strat = "solve_best_first_search" -> 2
      [] strat = "solve_a_star" -> 3

SwitchOrder == <<"solve_uniform_cost", "solve_best_first_search", "solve_a_star">>

\* switcher.get(case)
SwitchGet(sw, case) == IF case \in DOMAIN sw THEN sw[case] ELSE ReturnNone

\* an entry point has returned: its result becomes the next entry of the dict
\* and the next entry is evaluated, or the dict is complete and is looked up
run_switch ==
    /\ gpc = "switch"
    /\ pc = "returned"
    /\ LET k == SwitchKey(strategy)
       IN  /\ switcher' = (k :> result) @@ switcher
           /\ IF k < Len(SwitchOrder)
              THEN /\ strategy' = SwitchOrder[k + 1]
                   /\ pc' = "call"
                   /\ gpc' = "switch"
              ELSE /\ gpc' = "display"
                   /\ UNCHANGED <<strategy, pc>>
    /\ UNCHANGED <<start, queue, seen, nodes, result, error,
                   input_str, algo_mode, matrix, steps, distance>>
    /\ UNCHANGED clickVars

\* an exception of the entry point leaves Game.run
run_raise ==
    /\ gpc = "switch"
    /\ pc = "raised"
    /\ gpc' = "raised"
    /\ UNCHANGED <<start, strategy, pc, queue, seen, nodes, result, error,
                   input_str, algo_mode, matrix, switcher, steps, distance>>
    /\ UNCHANGED clickVars

\* lines 312-331: p = switch(algo_mode), then one frame per node of p
run_display ==
    /\ gpc = "display"
    /\ LET p == SwitchGet(switcher, algo_mode)
       IN  IF p.kind = "None"
           THEN /\ gpc' = "raised"
                /\ error' = "TypeError"
                /\ UNCHANGED steps
           ELSE /\ gpc' = "shown"
                /\ steps' = -1 + Len(p.path)
                /\ UNCHANGED error
    /\ UNCHANGED <<start, strategy, pc, queue, seen, nodes, result,
                   input_str, algo_mode, matrix, switcher, distance>>
    /\ UNCHANGED clickVars

\* texts that are not a board
BadInputs ==
    { <<>>,
      <<"1", "2">>,
      <<"1", "2", "3", "8", "0", "4", "7">>,
      <<"1", "2", "3", "8", "0", "4", "7", "6", "x">>,
      <<"1", "1", "1", "1", "0", "1", "1", "1", "1">>,
      <<"1", "2", "3", "8", "9", "4", "7", "6", "5">>,
      <<"1", "1", "1", "1", "0", "1", "1", "1", "1", "2">> }

GameInputs == {Str(b) : b \in Ball(GameScramble)} \cup BadInputs

\* the state when the worker thread enters Game.run after button_click
GameInit ==
    /\ input_str \in GameInputs
    /\ algo_mode \in 1..3
    /\ matrix = <<>>
    /\ gpc = "run"
    /\ switcher = NoSwitcher
    /\ steps = -1
    /\ distance = -1
    /\ move_list = <<>>
    /\ click_input = <<>>
    /\ click_pc = "none"
    /\ start = <<>>
    /\ strategy = "none"
    /\ pc = "idle"
    /\ queue = <<>>
    /\ seen = {}
    /\ nodes = <<>>
    /\ result = Pending
    /\ error = "none"

GameNext == run_parse \/ run_solve \/ run_switch \/ run_raise \/ run_display

GameSpec == GameInit /\ [][GameNext]_vars

(* ---------------------- calls of Puzzle.manhattan ---------------------- *)

\* a call of the property manhattan on the board `start`
manhattan ==
    /\ gpc = "heuristic"
    /\ pc = "call"
    /\ distance' = Manhattan(start)
    /\ pc' = "returned"
    /\ UNCHANGED <<start, strategy, queue, seen, nodes, result, error,
                   input_str, algo_mode, matrix, gpc, switcher, steps>>
    /\ UNCHANGED clickVars

HeuristicInit ==
    /\ start \in Ball(HeurDepth)
    /\ strategy = "manhattan"
    /\ pc = "call"
    /\ queue = <<>>
    /\ seen = {}
    /\ nodes = <<>>
    /\ result = Pending
    /\ error = "none"
    /\ input_str = <<>>
    /\ algo_mode = 0
    /\ matrix = <<>>
    /\ gpc = "heuristic"
    /\ switcher = NoSwitcher
    /\ steps = -1
    /\ distance = -1
    /\ move_list = <<>>
    /\ click_input = <<>>
    /\ click_pc = "none"

HeuristicNext == manhattan

HeuristicSpec == HeuristicInit /\ [][HeuristicNext]_vars

(* ----------------------- reads of Puzzle.actions ----------------------- *)

\* the list that Puzzle.actions returns for the board, each move() called:
\* the label of the move and the board of the Puzzle that _move returns
MoveList(board) ==
    [k \in 1..Len(Actions(board)) |->
        [action |-> Actions(board)[k].action,
         board |-> Move(board, Actions(board)[k].at, Actions(board)[k].to)]]

\* a read of the property actions on the board `start`, then every move()
actions ==
    /\ gpc = "actions"
    /\ pc = "call"
    /\ IF ActionsRaises(start)
       THEN /\ pc' = "raised"
            /\ error' = "IndexError"
            /\ UNCHANGED move_list
       ELSE /\ move_list' = MoveList(start)
            /\ pc' = "returned"
            /\ UNCHANGED error
    /\ UNCHANGED <<start, strategy, queue, seen, nodes, result,
                   input_str, algo_mode, matrix, gpc, switcher, steps,
                   distance, click_input, click_pc>>

ActionsInit ==
    /\ start \in Ball(ActionsDepth) \cup RepeatedTileBoards
    /\ strategy = "actions"
    /\ pc = "call"
    /\ queue = <<>>
    /\ seen = {}
    /\ nodes = <<>>
    /\ result = Pending
    /\ error = "none"
    /\ input_str = <<>>
    /\ algo_mode = 0
    /\ matrix = <<>>
    /\ gpc = "actions"
    /\ switcher = NoSwitcher
    /\ steps = -1
    /\ distance = -1
    /\ move_list = <<>>
    /\ click_input = <<>>
    /\ click_pc = "none"

ActionsNext == actions

ActionsSpec == ActionsInit /\ [][ActionsNext]_vars

(* ------------------- a second click during Game.run ------------------- *)

\* Puzzle(self.matrix) keeps the list object self.matrix as its board, and
\* Node(self.start) keeps that Puzzle: Game.matrix, Solver.start and the root
\* of every search of the run are one list.  A change of that list shows in
\* all of them.
SharedBoard(ns, board) == IF ns = <<>> THEN ns ELSE [ns EXCEPT ![1].puzzle = board]

\* button_click while a worker thread is in Game.run: read the entry box,
\* self.matrix.clear(), start a second worker thread
button_click ==
    /\ click_pc = "none"
    /\ gpc \in {"switch", "display"}
    /\ click_input' \in {Str(b) : b \in Ball(ClickScramble)}
    /\ matrix' = <<>>
    /\ start' = matrix'
    /\ nodes' = SharedBoard(nodes, matrix')
    /\ click_pc' = "started"
    /\ UNCHANGED <<strategy, pc, queue, seen, result, error, input_str, algo_mode,
                   gpc, switcher, steps, distance, move_list>>

\* the two loops of Game.run in the second worker thread: the rows of its
\* text are appended to self.matrix and every cell goes through int()
click_run_parse ==
    /\ click_pc = "started"
    /\ matrix' = Converted(matrix \o Rows(click_input))
    /\ start' = matrix'
    /\ nodes' = SharedBoard(nodes, matrix')
    /\ click_pc' = "parsed"
    /\ UNCHANGED <<strategy, pc, queue, seen, result, error, input_str, algo_mode,
                   gpc, switcher, steps, distance, move_list, click_input>>

\* a step of the Solver entry point of the first worker thread.  When the
\* root is taken out of the queue while its board is the cleared list, the
\* key function (manhattan) or actions reads self.board[0] with the width 3
\* kept from construction: IndexError.
thread_solve ==
    /\ gpc = "switch"
    /\ IF pc = "loop" /\ queue = <<1>> /\ nodes[1].puzzle = <<>>
       THEN /\ pc' = "raised"
            /\ error' = "IndexError"
            /\ UNCHANGED <<start, strategy, queue, seen, nodes, result>>
       ELSE Begin(strategy) \/ Iterate(strategy)
    /\ UNCHANGED gameVars

\* lines 312-331 in the first worker thread: the first frame reads the board
\* of the root, IndexError when it is the cleared list
thread_display ==
    /\ gpc = "display"
    /\ LET p == SwitchGet(switcher, algo_mode)
       IN  IF p.kind = "None"
           THEN /\ gpc' = "raised"
                /\ error' = "TypeError"
                /\ UNCHANGED steps
           ELSE IF matrix = <<>>
           THEN /\ gpc' = "raised"
                /\ error' = "IndexError"
                /\ UNCHANGED steps
           ELSE /\ gpc' = "shown"
                /\ steps' = -1 + Len(p.path)
                /\ UNCHANGED error
    /\ UNCHANGED <<start, strategy, pc, queue, seen, nodes, result,
                   input_str, algo_mode, matrix, switcher, distance>>
    /\ UNCHANGED clickVars

\* the first worker thread has parsed its text and built Puzzle and Solver
ClickInit ==
    /\ input_str \in {Str(b) : b \in Ball(ClickScramble) \ {goal_state}}
    /\ algo_mode \in 1..3
    /\ matrix = Converted(Rows(input_str))
    /\ start = matrix
    /\ strategy = "solve_uniform_cost"
    /\ pc = "call"
    /\ gpc = "switch"
    /\ switcher = NoSwitcher
    /\ steps = -1
    /\ distance = -1
    /\ queue = <<>>
    /\ seen = {}
    /\ nodes = <<>>
    /\ result = Pending
    /\ error = "none"
    /\ move_list = <<>>
    /\ click_input = <<>>
    /\ click_pc = "none"

ClickNext ==
    \/ thread_solve
    \/ run_switch
    \/ run_raise
    \/ thread_display
    \/ button_click
    \/ click_run_parse

ClickSpec == ClickInit /\ [][ClickNext]_vars

(* ------------------------------ claims --------------------------------- *)

\* board b is board a after one legal move: the blank of a and one tile
\* orthogonally next to it have changed places and no other cell differs
LegalStep(a, b) ==
    \E pq \in AdjacentPairs :
        LET p == pq[1]
            q == pq[2]
        IN  /\ a[p[1] + 1][p[2] + 1] = 0 /\ a[q[1] + 1][q[2] + 1] # 0
            /\ b[q[1] + 1][q[2] + 1] = 0
            /\ b[p[1] + 1][p[2] + 1] = a[q[1] + 1][q[2] + 1]
            /\ \A o \in Cells \ {p, q} : b[o[1] + 1][o[2] + 1] = a[o[1] + 1][o[2] + 1]

\* how many cells of the board hold v
Count(board, v) == Cardinality({rc \in Cells : board[rc[1] + 1][rc[2] + 1] = v})

PathBoard(k) == nodes[result.path[k]].puzzle

\* the start boards of the solver from which the goal can and cannot be reached
SolvableStarts == {b \in StartBoards \cup DeepBoards : ShortestLen(b) >= 0}
UnsolvableStarts == {b \in StartBoards \cup DeepBoards : ShortestLen(b) = -1}

ReturnedPath == gpc = "direct" /\ pc = "returned" /\ result.kind = "path"

\* C1: whenever solve_a_star returns for a start board from which the goal
\* can be reached, it returns a path, and the number of moves of that path
\* (its nodes minus one) is the length of a shortest move sequence from the
\* start board to the goal as the breadth-first search finds it.
C1_AStarShortest ==
    (gpc = "direct" /\ pc = "returned" /\ strategy = "solve_a_star")
        => (ShortestLen(start) >= 0
               => /\ result.kind = "path"
                  /\ Len(result.path) - 1 = ShortestLen(start))

\* C2: whenever solve_uniform_cost returns for a start board from which the
\* goal can be reached, it returns a path whose number of moves is the length
\* of a shortest move sequence from the start board to the goal.
C2_UniformCostShortest ==
    (gpc = "direct" /\ pc = "returned" /\ strategy = "solve_uniform_cost")
        => (ShortestLen(start) >= 0
               => /\ result.kind = "path"
                  /\ Len(result.path) - 1 = ShortestLen(start))

C2_Witness ==
    /\ ReturnedPath
    /\ strategy = "solve_uniform_cost"
    /\ start = ScenarioBoard
    /\ Len(result.path) = 6

\* C3: a call of any of the three entry points on a start board from which
\* no move sequence reaches the goal eventually returns None with an empty
\* queue; it never raises and never returns a path.
C3_UnsolvableReturnsNone ==
    /\ (gpc = "direct" /\ pc = "call" /\ start \in UnsolvableStarts)
           ~> (pc = "returned" /\ result = ReturnNone /\ queue = <<>>)
    /\ []((gpc = "direct" /\ start \in UnsolvableStarts)
              => (pc # "raised" /\ result.kind # "path"))

C3_Witness ==
    /\ gpc = "direct"
    /\ pc = "returned"
    /\ result = ReturnNone
    /\ queue = <<>>
    /\ strategy = "solve_a_star"
    /\ Cardinality(seen) > 9
    /\ start \in UnsolvableStarts

\* C4: a call of solve_best_first_search or of solve_uniform_cost on a start
\* board from which the goal can be reached eventually returns a path whose
\* last node holds the goal board.
C4_SolvableReturnsPath ==
    (/\ gpc = "direct"
     /\ pc = "call"
     /\ strategy \in {"solve_best_first_search", "solve_uniform_cost"}
     /\ start \in SolvableStarts)
        ~> (/\ pc = "returned"
            /\ result.kind = "path"
            /\ Solved(PathBoard(Len(result.path))))

C4_Witness ==
    /\ ReturnedPath
    /\ strategy = "solve_best_first_search"
    /\ start = DeepBoard
    /\ Solved(PathBoard(Len(result.path)))

\* C5: in a returned path every board is the board before it after exactly
\* one legal move.
C5_PathStepsLegal ==
    ReturnedPath =>
        \A k \in 1..(Len(result.path) - 1) : LegalStep(PathBoard(k), PathBoard(k + 1))

C5_Witness ==
    /\ ReturnedPath
    /\ strategy = "solve_best_first_search"
    /\ Len(result.path) > 12

\* C6: a returned path starts with the start board given to the Solver and
\* ends with the goal board 123804765.
C6_PathEnds ==
    ReturnedPath =>
        /\ PathBoard(1) = start
        /\ PathBoard(Len(result.path)) = goal_state
        /\ Str(PathBoard(Len(result.path)))
               = <<"1", "2", "3", "8", "0", "4", "7", "6", "5">>

C6_Witness ==
    /\ ReturnedPath
    /\ strategy = "solve_a_star"
    /\ Len(result.path) > 12
    /\ PathBoard(1) # PathBoard(Len(result.path))

\* C7: when the start board is the goal layout, the call keeps only the root:
\* nothing but the root is ever created, queued or marked seen, and what is
\* returned is the path that holds the root alone.
C7_GoalStartRootOnly ==
    (gpc = "direct" /\ start = goal_state /\ pc \in {"loop", "returned"})
        => /\ Len(nodes) = 1
           /\ seen = {Str(start)}
           /\ pc = "loop" => queue = <<1>>
           /\ pc = "returned" => result = ReturnPath(<<1>>) /\ queue = <<>>

C7_Witness ==
    /\ gpc = "direct"
    /\ start = goal_state
    /\ pc = "returned"
    /\ strategy = "solve_best_first_search"
    /\ result = ReturnPath(<<1>>)

\* the text is not a board: not 9 characters, or a character that is not one
\* of the digits 0..8, or a character that occurs twice
Malformed(str) ==
    \/ Len(str) # 9
    \/ \E i \in 1..Len(str) : str[i] \notin {"0", "1", "2", "3", "4", "5", "6", "7", "8"}
    \/ \E i, j \in 1..Len(str) : i < j /\ str[i] = str[j]

\* C8: Game.run on a malformed text ends with an error before any Solver
\* entry point is called, so no pass of a search loop is made for it.
C8_MalformedRejected ==
    Malformed(input_str) => (gpc \in {"run", "raised"} /\ pc = "idle")

\* C9: every node that a search has put in its queue holds a board with the
\* same number of cells of every value as the start board, one of them blank.
C9_TilesKept ==
    gpc = "direct" =>
        \A n \in 1..Len(nodes) :
            /\ \A v \in 0..9 : Count(nodes[n].puzzle, v) = Count(start, v)
            /\ Count(nodes[n].puzzle, 0) = 1

C9_Witness ==
    /\ gpc = "direct"
    /\ Len(nodes) > 40
    /\ strategy = "solve_uniform_cost"
    /\ nodes[Len(nodes)].puzzle # start

\* C10: manhattan of a board from which the goal can be reached is at most
\* the length of a shortest move sequence to the goal, and is 0 on the goal.
C10_Admissible ==
    (gpc = "heuristic" /\ pc = "returned")
        => /\ ShortestLen(start) >= 0 => distance <= ShortestLen(start)
           /\ start = goal_state => distance = 0

C10_Witness ==
    /\ gpc = "heuristic"
    /\ pc = "returned"
    /\ ShortestLen(start) = 8
    /\ distance = 6

\* C11: for every board on which actions was read and every board that one
\* of the returned moves produces, manhattan of the board is at most 1 plus
\* manhattan of the produced board, and the child node made from the move
\* has an f that is not below the f of the node of the board.
C11_Consistent ==
    (gpc = "actions" /\ pc = "returned") =>
        \A k \in 1..Len(move_list) :
            LET root == NewNode(<<>>, start, None, NoAction)
                ns == <<root, NewNode(<<root>>, move_list[k].board, 1,
                                      move_list[k].action)>>
            IN  /\ Manhattan(start) <= 1 + Manhattan(move_list[k].board)
                /\ H(ns, 1) <= 1 + H(ns, 2)
                /\ F(ns, 1) <= F(ns, 2)

\* a board with four moves, one of which lowers manhattan by exactly 1
C11_Witness ==
    /\ gpc = "actions"
    /\ pc = "returned"
    /\ Len(move_list) = 4
    /\ Manhattan(start) >= 4
    /\ \E k \in 1..4 : Manhattan(start) = 1 + Manhattan(move_list[k].board)
    /\ \E k \in 1..4 : Manhattan(move_list[k].board) = 1 + Manhattan(start)

\* the cell of the board that holds the blank
BlankCell(board) == CHOOSE rc \in Cells : board[rc[1] + 1][rc[2] + 1] = 0

\* the change of (row, column) that a direction letter stands for
Step(label) ==
    CASE label = "U" -> <<-1, 0>>
      [] label = "D" -> <<1, 0>>
      [] label = "L" -> <<0, -1>>
      [] label = "R" -> <<0, 1>>

\* going from cell p one step in the direction of the label gives cell q
Slid(p, label, q) == q = <<p[1] + Step(label)[1], p[2] + Step(label)[2]>>

\* C12 as stated: the label of every move that actions returns is the
\* direction in which the tile went: the tile leaves the cell that holds the
\* blank afterwards and arrives in the cell that held the blank before.
C12_LabelNamesTile ==
    (gpc = "actions" /\ pc = "returned") =>
        \A k \in 1..Len(move_list) :
            Slid(BlankCell(move_list[k].board), move_list[k].action,
                 BlankCell(start))

\* C12, amended: the label of every move that actions returns is the
\* direction in which the blank went, from its cell before the move to its
\* cell after the move; the tile went the opposite way.
C12_LabelNamesBlank ==
    (gpc = "actions" /\ pc = "returned") =>
        \A k \in 1..Len(move_list) :
            /\ move_list[k].action \in {"U", "D", "L", "R"}
            /\ Slid(BlankCell(start), move_list[k].action,
                    BlankCell(move_list[k].board))
            /\ ~Slid(BlankCell(move_list[k].board), move_list[k].action,
                     BlankCell(start))

\* the blank in the centre: the four labels occur
C12_Witness ==
    /\ gpc = "actions"
    /\ pc = "returned"
    /\ BlankCell(start) = <<1, 1>>
    /\ {move_list[k].action : k \in 1..Len(move_list)} = {"U", "D", "L", "R"}

\* the cells orthogonally next to cell p inside the 3x3 grid
NextTo(p) == {q \in Cells : Adjacent(p, q)}

\* C13: on a 3x3 board with exactly one blank, actions returns one move for
\* every cell next to the blank and nothing else: 2 moves for a blank in a
\* corner, 3 on an edge, 4 in the centre; the labels differ from each other,
\* the produced boards differ from each other, and each produced board is
\* the board with the blank and one of the tiles next to it exchanged.
C13_OneMovePerNeighbour ==
    (gpc = "actions" /\ pc = "returned" /\ Count(start, 0) = 1) =>
        LET blank == BlankCell(start)
            n == Len(move_list)
        IN  /\ n = Cardinality(NextTo(blank))
            /\ blank \in {<<0, 0>>, <<0, 2>>, <<2, 0>>, <<2, 2>>} => n = 2
            /\ blank \in {<<0, 1>>, <<1, 0>>, <<1, 2>>, <<2, 1>>} => n = 3
            /\ blank = <<1, 1>> => n = 4
            /\ \A h, k \in 1..n :
                   h # k => /\ move_list[h].action # move_list[k].action
                            /\ move_list[h].board # move_list[k].board
            /\ {move_list[k].board : k \in 1..n}
                   = {Exchanged(start, blank, q) : q \in NextTo(blank)}

\* the blank in the bottom right corner: two moves
C13_Witness ==
    /\ gpc = "actions"
    /\ pc = "returned"
    /\ BlankCell(start) = <<2, 2>>
    /\ Len(move_list) = 2
    /\ start \notin RepeatedTileBoards

\* the nodes of the queue
Frontier == {queue[k] : k \in 1..Len(queue)}

\* the node that a pass of the loop takes out of the queue.  Nodes enter the
\* queue in the order they enter the arena, so of two nodes the one with the
\* smaller reference was inserted earlier.
Popped == CHOOSE n \in Frontier : \A k \in 1..Len(queue') : queue'[k] # n

PopStep == gpc = "direct" /\ pc = "loop" /\ queue # <<>>

\* C14 as stated: in every pass of the loop of every entry point the node
\* taken out of the queue has the least key of the nodes of the queue, and
\* no node of the queue with the same key was inserted before it.
C14_PopsEarliest ==
    [][PopStep =>
          \A p \in {Popped} : \A m \in Frontier :
              /\ SortKey(strategy, nodes, p) <= SortKey(strategy, nodes, m)
              /\ SortKey(strategy, nodes, p) = SortKey(strategy, nodes, m) => p <= m]_vars

\* C14, amended: in every pass of the loop of every entry point the node
\* taken out of the queue has the least key of the nodes of the queue, and
\* no node of the queue with the same key was inserted after it: among
\* equal keys the node inserted last leaves first.
C14_PopsLatest ==
    [][PopStep =>
          \A p \in {Popped} : \A m \in Frontier :
              /\ SortKey(strategy, nodes, p) <= SortKey(strategy, nodes, m)
              /\ SortKey(strategy, nodes, p) = SortKey(strategy, nodes, m) => m <= p]_vars

\* the node expanded last (the parent of the newest node) has left the queue
\* while a node inserted before it, with the same key, is still waiting
C14_Witness ==
    /\ gpc = "direct"
    /\ pc = "loop"
    /\ strategy = "solve_a_star"
    /\ Len(nodes) > 1
    /\ \E p \in {nodes[Len(nodes)].parent} :
           /\ p \notin Frontier
           /\ \E m \in Frontier :
                  m < p /\ SortKey(strategy, nodes, m) = SortKey(strategy, nodes, p)

\* C15: in every pass of the loop of solve_a_star on a start board from which
\* the goal can be reached, the g of the node taken out of the queue is the
\* least number of moves that lead from the start board to the board of that
\* node.
C15_PoppedCostMinimal ==
    [][(PopStep /\ strategy = "solve_a_star" /\ start \in SolvableStarts) =>
          \A p \in {Popped} :
              nodes[p].g = MovesBetween(start, nodes[p].puzzle)]_vars

\* the worker thread of the first click is inside a Solver entry point
SolverRunning == gpc = "switch" /\ pc = "loop"

\* C16: while the Solver invocation of the first click is running, the board
\* of its start State and the board of every node it has created stay what
\* they are, whatever a second click and its worker thread do.
C16_BoardsImmutable ==
    [][SolverRunning =>
          /\ start' = start
          /\ \A n \in 1..Len(nodes) : nodes'[n].puzzle = nodes[n].puzzle]_vars

\* C17: a Game.run on the text of a board with selector k calls only the
\* entry point of strategy k: no other entry point is running or has
\* returned into the dict, and what is shown is the path that the entry
\* point of strategy k returned.
C17_OnlySelectedRuns ==
    ~Malformed(input_str) =>
        /\ gpc = "switch" => SwitchKey(strategy) = algo_mode
        /\ gpc \in {"switch", "display", "shown"}
               => DOMAIN switcher \subseteq {algo_mode}
        /\ gpc = "shown" => steps = Len(switcher[algo_mode].path) - 1

\* C18: in every state of the loop of every entry point, the board string of
\* every node of the queue is in seen, no two nodes of the queue hold the
\* same board string, and no board string has entered the queue twice in the
\* search: the nodes ever queued, the root among them, hold different board
\* strings, and seen is the set of those strings.
C18_QueuedOnce ==
    (gpc = "direct" /\ pc \in {"loop", "returned"}) =>
        /\ \A n \in Frontier : State(nodes, n) \in seen
        /\ \A h, k \in 1..Len(queue) :
               h # k => State(nodes, queue[h]) # State(nodes, queue[k])
        /\ Cardinality({State(nodes, n) : n \in 1..Len(nodes)}) = Len(nodes)
        /\ seen = {State(nodes, n) : n \in 1..Len(nodes)}
        /\ State(nodes, 1) = Str(start)

\* a search that has met boards it had already queued: fewer nodes than
\* moves generated, several nodes waiting
C18_Witness ==
    /\ gpc = "direct"
    /\ pc = "loop"
    /\ strategy = "solve_uniform_cost"
    /\ Len(queue) > 10
    /\ Len(nodes) > 30
    /\ \E n \in 1..Len(nodes) : \E m \in Neighbours(nodes[n].puzzle) :
           /\ n \notin Frontier
           /\ \E k \in 1..Len(nodes) : nodes[k].puzzle = m /\ nodes[k].parent # n
                                         /\ nodes[n].parent # k

\* the nodes that earlier passes of the loop took out of the queue
Expanded == (1..Len(nodes)) \ Frontier

\* C19: in solve_uniform_cost the g of the node that a pass of the loop takes
\* out of the queue is not below the g of any node taken out before it, and
\* the g of every node is the number of parent links from it to the root.
C19_CostOrder ==
    /\ []((gpc = "direct" /\ strategy = "solve_uniform_cost") =>
             \A n \in 1..Len(nodes) : nodes[n].g = Len(Chain(nodes, n)) - 1)
    /\ [][(PopStep /\ strategy = "solve_uniform_cost") =>
              \A p \in {Popped} : \A e \in Expanded : nodes[e].g <= nodes[p].g]_vars

\* nodes of cost 0, 1, 2 and 3 have been taken out and more are waiting
C19_Witness ==
    /\ gpc = "direct"
    /\ pc = "loop"
    /\ strategy = "solve_uniform_cost"
    /\ queue # <<>>
    /\ {nodes[e].g : e \in Expanded} = 0..3
    /\ \E n \in Frontier : Len(Chain(nodes, n)) = 5

\* C20: a pass of a search loop, which reads the actions of the node it took
\* out and applies every move, leaves the board, g, parent link and action
\* of that node and of every other node created before as they were (nodes
\* of the queue and nodes on parent chains alike), and the board of every
\* child it creates differs from the board of its parent, which still holds
\* the blank where it was.
C20_NodesUntouched ==
    [][(gpc = "direct" /\ pc = "loop") =>
          /\ Len(nodes') >= Len(nodes)
          /\ \A n \in 1..Len(nodes) : nodes'[n] = nodes[n]
          /\ \A c \in (Len(nodes) + 1)..Len(nodes') :
                 /\ nodes'[c].parent \in 1..Len(nodes)
                 /\ nodes'[c].puzzle # nodes'[nodes'[c].parent].puzzle
                 /\ LegalStep(nodes[nodes'[c].parent].puzzle, nodes'[c].puzzle)]_vars

\* a node with three children, created while other nodes were waiting
C20_Witness ==
    /\ gpc = "direct"
    /\ pc = "loop"
    /\ Len(nodes) > 12
    /\ \E p \in 2..Len(nodes) :
           /\ Cardinality({c \in 1..Len(nodes) : nodes[c].parent = p}) = 3
           /\ \E m \in Frontier : m < p

====
